---- MODULE Spec2Model ----
(***************************************************************************)
(* A model of redwood-filter's transports (transport.go) and URL matcher   *)
(* (url.go).                                                               *)
(*                                                                         *)
(* Strings that the code slices or searches are sequences of one-character *)
(* strings; errors and responses carry the position of the exchange that   *)
(* produced them, so that "the error of the last attempt" is a statement   *)
(* about identity and not only about kind.                                 *)
(***************************************************************************)
EXTENDS Integers, Sequences, FiniteSets, TLC

VARIABLES
    conf,      \* the configuration getConfig() returns: Verbose, ExtraRootCerts
    ct,        \* the connTransport: Conn, Redial, br, used
    net,       \* the connections: how often each was closed, the next fresh one
    ctLast,    \* what the last connTransport.RoundTrip call did and returned
    body,      \* the bodyWithContext of the last response and the Read on it
    rtLast,    \* what the last RetryTransport.RoundTrip call did and returned
    tlsConns,  \* the TLS connections dialed so far: "open" or "closed"
    dialLast,  \* what the last dialWithExtraRootCerts call did and returned
    matcher,   \* the URLMatcher
    loaded,    \* the rules AddRule was called with, whether finalize ran
    urlLast,   \* the URL of the last MatchingRules call and what it returned
    regexes,   \* a regexMap on its own
    rmAdded,   \* the rules addRule was called with on it, whether finalize ran
    rmLast,    \* the text of the last findMatches call on it and its tally
    procs,     \* the concurrent MatchingRules calls: position, locals, result
    tried,     \* the tried map of the findMatches call each of them is in
    ftp,       \* an FTPTransport request: transfer, monitoring task, pipe, consumer
    logs,      \* customLogs, customLogLock, the CSVLogs and their files
    callers    \* the concurrent callers of customCSVLog, Open and Log

ctVars == <<ct, net, ctLast, body>>
rtVars == <<rtLast>>
dialVars == <<tlsConns, dialLast>>
urlVars == <<matcher, loaded, urlLast>>
rmVars == <<regexes, rmAdded, rmLast>>
concVars == <<procs, tried>>
logVars == <<logs, callers>>
vars == <<conf, ct, net, ctLast, body, rtLast, tlsConns, dialLast, matcher, loaded,
         urlLast, regexes, rmAdded, rmLast, procs, tried, ftp, logs, callers>>

(***************************************************************************)
(* Bounds.                                                                 *)
(***************************************************************************)
\* connections a session may dial in one behaviour (the first one included)
MaxConns == 3
\* calls of dialWithExtraRootCerts in one behaviour
MaxDials == 3
\* rules added to a URLMatcher
MaxRules == 2
\* DNS labels of a host name
MaxLabels == 3
\* labels of a host name that is a fragment key
MaxKeyLabels == 2
\* segments of a path
MaxSegs == 2
\* rules added to a regexMap on its own
MaxRegexRules == 3
\* characters of a text given to findMatches on its own
MaxTextLen == 3
\* concurrent callers of MatchingRules
MaxProcs == 2
\* Read calls on one response body
MaxReads == 2
\* pieces of a file an FTP transfer writes
MaxChunks == 2
\* statuses other than COMPLETED and ERROR an FTP transfer reports
MaxStatuses == 2
\* concurrent callers of customCSVLog, Open and Log
MaxCallers == 2
\* CSVLogs made by customCSVLog
MaxLogs == 3
\* files opened by os.OpenFile
MaxLogFiles == 2
\* records logged
MaxRecords == 2

(***************************************************************************)
(* Requests, errors, responses.                                            *)
(***************************************************************************)
Methods == {"GET", "HEAD", "OPTIONS", "TRACE", "POST"}

\* r.Body / r.GetBody: no body, http.NoBody, a body with GetBody, a plain reader
BodyKinds == {
    [Body |-> "nil", GetBody |-> FALSE],
    [Body |-> "NoBody", GetBody |-> FALSE],
    [Body |-> "reader", GetBody |-> TRUE],
    [Body |-> "reader", GetBody |-> FALSE] }

\* the header names of the request that carry a non-empty value
HeaderSets == { {}, {"Idempotency-Key"}, {"X-Idempotency-Key"} }

Requests == { [Method |-> m, Body |-> b.Body, GetBody |-> b.GetBody, Header |-> h] :
                m \in Methods, b \in BodyKinds, h \in HeaderSets }

\* the request no call has been made with yet
NoReq == [Method |-> "", Body |-> "nil", GetBody |-> FALSE, Header |-> {}]

\* transport errors an exchange can end with; the first four are the ones
\* shouldRedialForError names
ErrKinds == {"EOF", "unexpected EOF", "broken pipe", "no renegotiation",
             "connection reset", "timeout"}

\* the errors a write to a connection fails with, and those a read fails with
WriteErrKinds == {"broken pipe", "timeout"}
ReadErrKinds == ErrKinds \ {"broken pipe"}

NoErr == [kind |-> "nil", at |-> 0]
NoResp == [conn |-> 0, at |-> 0]

\* the error value of kind k produced by step number n of a call
Err(k, n) == [kind |-> k, at |-> n]

shouldRedialForError_NoUnexpectedEOF(err) ==
    err.kind \in {"EOF", "broken pipe", "no renegotiation"}

shouldRedialForError(err) ==
    err.kind \in {"EOF", "unexpected EOF", "broken pipe", "no renegotiation"}

requestIsReplayable_AnyBody(r) ==
    \/ r.Method \in {"GET", "HEAD", "OPTIONS", "TRACE"}
    \/ "Idempotency-Key" \in r.Header
    \/ "X-Idempotency-Key" \in r.Header

requestIsReplayable(r) ==
    /\ (r.Body = "nil" \/ r.Body = "NoBody" \/ r.GetBody)
    /\ \/ r.Method \in {"GET", "HEAD", "OPTIONS", "TRACE"}
       \/ "Idempotency-Key" \in r.Header
       \/ "X-Idempotency-Key" \in r.Header

(***************************************************************************)
(* connTransport.                                                          *)
(*                                                                         *)
(* An exchange outcome is what the network does to one write/read cycle:   *)
(* "ok", or a failure of the write or of the read with some error kind.    *)
(* ctxDone says whether the request's context is canceled when roundTrip   *)
(* looks at it.                                                            *)
(***************************************************************************)
Outcomes == {<<"ok", "">>} \cup ({"write"} \X WriteErrKinds)
                \cup ({"read"} \X ReadErrKinds)

\* the outcomes of ct.Redial: a new connection or an error
RedialOutcomes == {"ok", "error"}

roundTrip_NoContextCheck(s, ctxDone, o, n) ==
    IF o[1] = "write"
    THEN [s |-> s, resp |-> NoResp, err |-> Err(o[2], n),
          wrote |-> 1, conn |-> s.Conn]
    ELSE LET s1 == IF s.br = 0 THEN [s EXCEPT !.br = s.Conn] ELSE s
         IN IF o[1] = "read"
            THEN [s |-> s1, resp |-> NoResp, err |-> Err(o[2], n),
                  wrote |-> 1, conn |-> s.Conn]
            ELSE [s |-> s1, resp |-> [conn |-> s1.br, at |-> n], err |-> NoErr,
                  wrote |-> 1, conn |-> s.Conn]

\* What one call of ct.roundTrip does in session s: n numbers the exchange
\* within the RoundTrip call.  The result holds the session afterwards, the
\* response and error returned, and whether a write reached the connection.
roundTrip(s, ctxDone, o, n) ==
    IF ctxDone
    THEN [s |-> s, resp |-> NoResp, err |-> Err("context canceled", n),
          wrote |-> 0, conn |-> s.Conn]
    ELSE IF o[1] = "write"
    THEN [s |-> s, resp |-> NoResp, err |-> Err(o[2], n),
          wrote |-> 1, conn |-> s.Conn]
    ELSE LET s1 == IF s.br = 0 THEN [s EXCEPT !.br = s.Conn] ELSE s
         IN IF o[1] = "read"
            THEN [s |-> s1, resp |-> NoResp, err |-> Err(o[2], n),
                  wrote |-> 1, conn |-> s.Conn]
            ELSE [s |-> s1, resp |-> [conn |-> s1.br, at |-> n], err |-> NoErr,
                  wrote |-> 1, conn |-> s.Conn]

redial_ReplaceOnError(s, c, rd) ==
    IF ~s.Redial
    THEN [s |-> s, c |-> c, err |-> "no redial function provided", dialed |-> 0]
    ELSE [s |-> [s EXCEPT !.Conn = c.next, !.br = c.next],
          c |-> [closed |-> [c.closed EXCEPT ![s.Conn] = @ + 1], next |-> c.next + 1],
          err |-> IF rd = "error" THEN "dial error" ELSE "nil", dialed |-> 1]

redial_CloseBeforeDial(s, c, rd) ==
    IF ~s.Redial
    THEN [s |-> s, c |-> c, err |-> "no redial function provided", dialed |-> 0]
    ELSE IF rd = "error"
    THEN [s |-> s, c |-> [c EXCEPT !.closed[s.Conn] = @ + 1],
          err |-> "dial error", dialed |-> 1]
    ELSE [s |-> [s EXCEPT !.Conn = c.next, !.br = c.next],
          c |-> [closed |-> [c.closed EXCEPT ![s.Conn] = @ + 1], next |-> c.next + 1],
          err |-> "nil", dialed |-> 1]

redial_KeepReader(s, c, rd) ==
    IF ~s.Redial
    THEN [s |-> s, c |-> c, err |-> "no redial function provided", dialed |-> 0]
    ELSE IF rd = "error"
    THEN [s |-> s, c |-> c, err |-> "dial error", dialed |-> 1]
    ELSE [s |-> [s EXCEPT !.Conn = c.next],
          c |-> [closed |-> [c.closed EXCEPT ![s.Conn] = @ + 1], next |-> c.next + 1],
          err |-> "nil", dialed |-> 1]

\* ct.redial in session s over connections c: rd is what ct.Redial returns.
redial(s, c, rd) ==
    IF ~s.Redial
    THEN [s |-> s, c |-> c, err |-> "no redial function provided", dialed |-> 0]
    ELSE IF rd = "error"
    THEN [s |-> s, c |-> c, err |-> "dial error", dialed |-> 1]
    ELSE [s |-> [s EXCEPT !.Conn = c.next, !.br = c.next],
          c |-> [closed |-> [c.closed EXCEPT ![s.Conn] = @ + 1], next |-> c.next + 1],
          err |-> "nil", dialed |-> 1]

\* the inputs of a call that the call does not consume
NoInput == [ctx |-> "live", o1 |-> <<"ok", "">>, rdP |-> "error", rd |-> "error",
            o2 |-> <<"ok", "">>]

\* connTransport.RoundTrip(req) in session s over connections c.  in holds what
\* the environment does during the call: ctx ("live", "canceled" before the
\* call, "cancelMid" between the two exchanges), the outcomes o1 and o2 of the
\* exchanges, and the results rdP and rd of the proactive and reactive dial.
connRoundTrip(s, c, cf, req, in) ==
    LET pro == s.used /\ ~requestIsReplayable(req)
        p == IF pro THEN redial(s, c, in.rdP)
             ELSE [s |-> s, c |-> c, err |-> "nil", dialed |-> 0]
        \* line 102 tests the named result err, which is still nil here
        errSoFar == NoErr
        logP == IF pro /\ errSoFar # NoErr /\ "redial" \in cf.Verbose
                THEN <<[at |-> "proactive", cause |-> p.err]>> ELSE <<>>
        x1 == roundTrip([p.s EXCEPT !.used = TRUE], in.ctx = "canceled", in.o1, 1)
        re == x1.err # NoErr /\ shouldRedialForError(x1.err) /\ requestIsReplayable(req)
        r == IF re THEN redial(x1.s, p.c, in.rd)
             ELSE [s |-> x1.s, c |-> p.c, err |-> "nil", dialed |-> 0]
        again == re /\ r.err = "nil"
        x2 == roundTrip(r.s, in.ctx # "live", in.o2, 2)
        logR == IF re /\ r.err # "nil" /\ "redial" \in cf.Verbose
                THEN <<[at |-> "reactive", cause |-> r.err]>> ELSE <<>>
        last == IF again THEN x2 ELSE x1
    IN [s |-> IF again THEN x2.s ELSE r.s,
        c |-> r.c,
        obs |-> [req |-> req, ctx |-> in.ctx, resp |-> last.resp, err |-> last.err,
                 firstErr |-> x1.err,
                 proactive |-> IF pro THEN 1 ELSE 0, proErr |-> p.err,
                 reactive |-> IF re THEN 1 ELSE 0, reErr |-> r.err,
                 dials |-> p.dialed + r.dialed,
                 exchanges |-> IF again THEN 2 ELSE 1,
                 writes |-> (IF x1.wrote = 1 THEN <<x1.conn>> ELSE <<>>)
                            \o (IF again /\ x2.wrote = 1 THEN <<x2.conn>> ELSE <<>>),
                 log |-> logP \o logR,
                 before |-> s]]

NoObs == [req |-> NoReq, ctx |-> "live", resp |-> NoResp, err |-> NoErr, firstErr |-> NoErr,
          proactive |-> 0, proErr |-> "nil", reactive |-> 0, reErr |-> "nil",
          dials |-> 0, exchanges |-> 0, writes |-> <<>>, log |-> <<>>,
          before |-> [Conn |-> 0, Redial |-> FALSE, br |-> 0, used |-> FALSE]]

\* the configuration: the categories --verbose is on for, and whether
\* ExtraRootCerts is a pool (TRUE) or nil
ConfInit ==
    conf \in [Verbose : {{}, {"redial"}}, ExtraRootCerts : BOOLEAN]

\* no response body
NoBody == [open |-> FALSE, ctx |-> "live", state |-> "idle", late |-> FALSE,
           res |-> "none", reads |-> 0]

\* lines 173-178: the body of a response, wrapped with the context of the
\* request, which is not canceled when roundTrip returns the response
newBody(resp) == IF resp = NoResp THEN NoBody ELSE [NoBody EXCEPT !.open = TRUE]

\* bodyWithContext.Read up to the point where it returns or calls Read of the
\* wrapped body
bodyRead(b) ==
    IF b.ctx = "canceled"
    THEN [b EXCEPT !.state = "returned", !.res = "context canceled", !.reads = @ + 1]
    ELSE [b EXCEPT !.state = "blocked", !.res = "none"]

CTInit ==
    /\ ct \in [Conn : {1}, Redial : BOOLEAN, br : {0}, used : {FALSE}]
    /\ net = [closed |-> [i \in 1..MaxConns |-> 0], next |-> 2]
    /\ ctLast = NoObs
    /\ body = NoBody

\* One connTransport.RoundTrip call, with every input the call consumes.  A
\* connTransport is used by one request at a time: the next call starts after
\* the caller is done with the result of the last one.
CTRoundTrip ==
    /\ ctLast = NoObs
    /\ net.next <= MaxConns
    /\ \E req \in Requests, cx \in {"live", "canceled"} :
       \E o1 \in (IF cx = "canceled" THEN {NoInput.o1} ELSE Outcomes),
          rdP \in (IF ct.used /\ ~requestIsReplayable(req) /\ ct.Redial
                   THEN RedialOutcomes ELSE {NoInput.rdP}) :
       LET first == connRoundTrip(ct, net, conf, req,
                        [NoInput EXCEPT !.ctx = cx, !.o1 = o1, !.rdP = rdP]).obs
           dialsAgain == first.reactive = 1 /\ ct.Redial
       IN \E rd \in (IF dialsAgain THEN RedialOutcomes ELSE {NoInput.rd}) :
          \E cx2 \in (IF rd = "ok" THEN {cx, "cancelMid"} ELSE {cx}) :
          \E o2 \in (IF rd = "ok" /\ cx2 = "live" THEN Outcomes ELSE {NoInput.o2}) :
          LET call == connRoundTrip(ct, net, conf, req,
                         [ctx |-> cx2, o1 |-> o1, rdP |-> rdP, rd |-> rd, o2 |-> o2])
          IN /\ ct' = call.s
             /\ net' = call.c
             /\ ctLast' = call.obs
             /\ body' = newBody(call.obs.resp)
    /\ UNCHANGED <<conf, rtVars, dialVars, urlVars, rmVars, concVars, ftp, logVars>>

\* The caller is done with the response (or error) of the last call, which
\* frees the connTransport for the next request.
CTRelease ==
    /\ ctLast # NoObs
    /\ body.state # "blocked"
    /\ ctLast' = NoObs
    /\ body' = NoBody
    /\ UNCHANGED <<conf, ct, net, rtVars, dialVars, urlVars, rmVars, concVars, ftp, logVars>>

\* The caller calls Read on the response body.
BodyRead ==
    /\ body.open
    /\ body.state # "blocked"
    /\ body.reads < MaxReads
    /\ body' = bodyRead(body)
    /\ UNCHANGED <<conf, ct, net, ctLast, rtVars, dialVars, urlVars, rmVars, concVars, ftp, logVars>>

\* line 207: the Read of the wrapped body, which the call is blocked in,
\* returns what the connection delivers: data, the end of the body or an error.
BodyReadReturns ==
    /\ body.state = "blocked"
    /\ \E r \in {"data", "EOF", "connection reset"} :
         body' = [body EXCEPT !.state = "returned", !.res = r, !.reads = @ + 1]
    /\ UNCHANGED <<conf, ct, net, ctLast, rtVars, dialVars, urlVars, rmVars, concVars, ftp, logVars>>

\* The context of the request is canceled; late records that a Read was
\* blocked in the wrapped body at that moment.
CancelRequest ==
    /\ body.open
    /\ body.ctx = "live"
    /\ body' = [body EXCEPT !.ctx = "canceled", !.late = (body.state = "blocked")]
    /\ UNCHANGED <<conf, ct, net, ctLast, rtVars, dialVars, urlVars, rmVars, concVars, ftp, logVars>>

(***************************************************************************)
(* RetryTransport.                                                         *)
(*                                                                         *)
(* The wrapped transport is any http.RoundTripper: its i-th invocation     *)
(* returns a response, or an error of some kind.                           *)
(***************************************************************************)
\* the loop count of RetryTransport.RoundTrip
RetryAttempts == 3

InnerOutcomes == {"ok"} \cup ErrKinds \cup {"context canceled"}

\* more inner outcomes than any call consumes
InnerLen == RetryAttempts + 2

\* what the i-th invocation of t.transport.RoundTrip returns
innerResult(outs, i) ==
    IF outs[i] = "ok"
    THEN [calls |-> i, resp |-> [conn |-> 0, at |-> i], err |-> NoErr]
    ELSE [calls |-> i, resp |-> NoResp, err |-> Err(outs[i], i)]

RECURSIVE retryLoop(_, _, _)
\* the for loop from its k-th iteration on, the i-th invocation coming next;
\* falling out of the loop reaches the return statement of line 281
retryLoop(outs, k, i) ==
    IF k > RetryAttempts
    THEN innerResult(outs, i)
    ELSE LET a == innerResult(outs, i)
         IN IF a.err = NoErr \/ ~shouldRedialForError(a.err)
            THEN a
            ELSE retryLoop(outs, k + 1, i + 1)

retryRoundTrip_IgnoreReplayable(req, outs) ==
    retryLoop(outs, 1, 1)

retryRoundTrip_OneMoreAttempt(req, outs) ==
    IF requestIsReplayable(req)
    THEN LET a == retryLoop(outs, 1, 1)
         IN IF a.calls = RetryAttempts + 1 /\ a.err # NoErr /\ shouldRedialForError(a.err)
            THEN innerResult(outs, a.calls + 1)
            ELSE a
    ELSE innerResult(outs, 1)

\* RetryTransport.RoundTrip(req), the wrapped transport behaving as outs says
retryRoundTrip(req, outs) ==
    IF requestIsReplayable(req)
    THEN retryLoop(outs, 1, 1)
    ELSE innerResult(outs, 1)

NoRtObs == [req |-> NoReq, outs |-> <<>>, calls |-> 0, resp |-> NoResp, err |-> NoErr]

RTInit == rtLast = NoRtObs

\* One RetryTransport.RoundTrip call.  The transport keeps no state between
\* calls, so a behaviour makes one call.
RTRoundTrip ==
    /\ rtLast.calls = 0
    /\ \E req \in Requests, outs \in [1..InnerLen -> InnerOutcomes] :
         LET call == retryRoundTrip(req, outs)
         IN /\ \A i \in 1..InnerLen : i > call.calls => outs[i] = "ok"
            /\ rtLast' = [req |-> req, outs |-> outs, calls |-> call.calls,
                          resp |-> call.resp, err |-> call.err]
    /\ UNCHANGED <<conf, ctVars, dialVars, urlVars, rmVars, concVars, ftp, logVars>>

(***************************************************************************)
(* dialWithExtraRootCerts.                                                 *)
(*                                                                         *)
(* in.dial is whether tls.DialWithDialer succeeds, in.sys whether the      *)
(* chain verifies against the system roots, in.extra whether it verifies   *)
(* against conf.ExtraRootCerts.  An error carries the step it comes from.  *)
(***************************************************************************)
NoDialObs == [dialed |-> FALSE, conn |-> 0, err |-> "nil", sys |-> "none",
              extra |-> "none", id |-> 0, pool |-> FALSE,
              in |-> [dial |-> FALSE, sys |-> FALSE, extra |-> FALSE]]

dialWithExtraRootCerts_TrustExtraPool(cf, tc, id, in) ==
    IF ~in.dial
    THEN [tc |-> tc, obs |-> [NoDialObs EXCEPT !.err = "dial", !.id = id, !.in = in]]
    ELSE LET opened == [tc EXCEPT ![id] = "open"]
             obs == [NoDialObs EXCEPT !.dialed = TRUE, !.id = id, !.in = in,
                                      !.pool = cf.ExtraRootCerts]
         IN IF in.sys
            THEN [tc |-> opened,
                  obs |-> [obs EXCEPT !.conn = id, !.sys = "ok"]]
            ELSE IF cf.ExtraRootCerts
            THEN [tc |-> opened,
                  obs |-> [obs EXCEPT !.conn = id, !.sys = "failed",
                                      !.extra = IF in.extra THEN "ok" ELSE "failed"]]
            ELSE [tc |-> [opened EXCEPT ![id] = "closed"],
                  obs |-> [obs EXCEPT !.err = "verify system", !.sys = "failed"]]

\* dialWithExtraRootCerts, opening connection id among the connections tc
dialWithExtraRootCerts(cf, tc, id, in) ==
    IF ~in.dial
    THEN [tc |-> tc, obs |-> [NoDialObs EXCEPT !.err = "dial", !.id = id, !.in = in]]
    ELSE LET opened == [tc EXCEPT ![id] = "open"]
             obs == [NoDialObs EXCEPT !.dialed = TRUE, !.id = id, !.in = in,
                                      !.pool = cf.ExtraRootCerts]
         IN IF in.sys
            THEN [tc |-> opened,
                  obs |-> [obs EXCEPT !.conn = id, !.sys = "ok"]]
            ELSE IF cf.ExtraRootCerts /\ in.extra
            THEN [tc |-> opened,
                  obs |-> [obs EXCEPT !.conn = id, !.sys = "failed", !.extra = "ok"]]
            ELSE \* err holds the result of the last Verify call made
                 [tc |-> [opened EXCEPT ![id] = "closed"],
                  obs |-> [obs EXCEPT !.sys = "failed",
                              !.extra = IF cf.ExtraRootCerts THEN "failed" ELSE "none",
                              !.err = IF cf.ExtraRootCerts THEN "verify extra"
                                      ELSE "verify system"]]

DialInit ==
    /\ tlsConns = [i \in 1..MaxDials |-> "none"]
    /\ dialLast = NoDialObs

\* One dialWithExtraRootCerts call.
Dial ==
    /\ dialLast.id < MaxDials
    /\ \E d \in BOOLEAN :
       \E s \in (IF d THEN BOOLEAN ELSE {FALSE}) :
       \E e \in (IF d /\ ~s /\ conf.ExtraRootCerts THEN BOOLEAN ELSE {FALSE}) :
         LET call == dialWithExtraRootCerts(conf, tlsConns, dialLast.id + 1,
                                            [dial |-> d, sys |-> s, extra |-> e])
         IN /\ tlsConns' = call.tc
            /\ dialLast' = call.obs
    /\ UNCHANGED <<conf, ctVars, rtVars, urlVars, rmVars, concVars, ftp, logVars>>

\* The configuration is reloaded: ExtraRootCerts is set or removed.
ReloadConfig ==
    /\ \E x \in BOOLEAN : conf' = [conf EXCEPT !.ExtraRootCerts = x]
    /\ conf' # conf
    /\ UNCHANGED <<ctVars, rtVars, dialVars, urlVars, rmVars, concVars, ftp, logVars>>

(***************************************************************************)
(* FTPTransport.                                                           *)
(*                                                                         *)
(* ftp.GetAsync starts a transfer that writes the file to the write end of *)
(* a pipe, reports its progress on the channel xfer.Status and, with the   *)
(* status ERROR, its error on the channel xfer.Error.  A pipe write waits  *)
(* for the read that takes its data.  RoundTrip starts a task that watches *)
(* the status channel, and returns a response whose body is the read end.  *)
(***************************************************************************)
\* the errors a transfer fails with
XferErrors == {"550 no such file", "connection lost"}

\* the extension of the URL's path: none, one with a MIME type, one without
Exts == {"", ".txt", ".zzz"}

NoFTP == [req |-> [Method |-> "", ext |-> ""], resp |-> "none", ctype |-> FALSE,
          err |-> "nil", xfer |-> "none", xferErr |-> "none", statusQ |-> <<>>,
          others |-> 0, errCh |-> "none", mon |-> "none", seen |-> "none",
          closes |-> 0, pipe |-> "open", data |-> 0, sent |-> 0,
          log |-> <<>>, cons |-> "idle", consRes |-> "none"]

\* FTPTransport.RoundTrip up to its return; started says whether GetAsync
\* started a transfer
ftpRoundTrip(f, method, ext, started) ==
    IF method # "GET"
    THEN [f EXCEPT !.req = [Method |-> method, ext |-> ext], !.resp = "405"]
    ELSE IF ~started
    THEN [f EXCEPT !.req = [Method |-> method, ext |-> ext], !.resp = "nil",
                   !.err = "GetAsync"]
    ELSE [f EXCEPT !.req = [Method |-> method, ext |-> ext], !.resp = "200",
                   !.ctype = (ext = ".txt"), !.xfer = "running", !.mon = "ranging"]

\* w.Close() and w.CloseWithError(err): the first close decides what reads
\* of the pipe end with
closePipe(f, e) ==
    [f EXCEPT !.closes = @ + 1, !.pipe = IF @ = "open" THEN e ELSE @]

monitorStatus_CloseClean(f, stat) ==
    CASE stat = "COMPLETED" -> [closePipe(f, "EOF") EXCEPT !.mon = "done", !.seen = stat]
      [] stat = "ERROR" -> [closePipe(f, "EOF") EXCEPT !.mon = "done", !.seen = stat]
      [] stat = "closed" -> [f EXCEPT !.mon = "done"]
      [] OTHER -> f

\* lines 230-241: the monitoring task receives stat from xfer.Status ("closed"
\* stands for the channel being closed, which ends the range loop)
monitorStatus(f, stat) ==
    CASE stat = "COMPLETED" -> [closePipe(f, "EOF") EXCEPT !.mon = "done", !.seen = stat]
      [] stat = "ERROR" -> [f EXCEPT !.mon = "awaitError", !.seen = stat]
      [] stat = "closed" -> [f EXCEPT !.mon = "done"]
      [] OTHER -> f

\* lines 236-239: the monitoring task receives the error from xfer.Error, logs
\* it and closes the pipe with it
monitorError(f) ==
    [closePipe(f, f.errCh) EXCEPT !.errCh = "none", !.mon = "done",
                                  !.log = Append(@, f.errCh)]

FTPInit == ftp = NoFTP

\* One FTPTransport.RoundTrip call.
FTPRoundTrip ==
    /\ ftp.resp = "none"
    /\ \E method \in {"GET", "POST"}, ext \in Exts :
       \E started \in (IF method = "GET" THEN BOOLEAN ELSE {FALSE}) :
         ftp' = ftpRoundTrip(ftp, method, ext, started)
    /\ UNCHANGED <<conf, ctVars, rtVars, dialVars, urlVars, rmVars, concVars, logVars>>

\* The transfer reports a status other than COMPLETED and ERROR.
XferProgress ==
    /\ ftp.xfer = "running"
    /\ ftp.others < MaxStatuses
    /\ ftp' = [ftp EXCEPT !.statusQ = Append(@, "STARTED"), !.others = @ + 1]
    /\ UNCHANGED <<conf, ctVars, rtVars, dialVars, urlVars, rmVars, concVars, logVars>>

\* The transfer writes a piece of the file to the pipe.
XferWrite ==
    /\ ftp.xfer = "running"
    /\ ftp.data = 0
    /\ ftp.pipe = "open"
    /\ ftp.sent < MaxChunks
    /\ ftp' = [ftp EXCEPT !.data = 1]
    /\ UNCHANGED <<conf, ctVars, rtVars, dialVars, urlVars, rmVars, concVars, logVars>>

\* The transfer ends: it reports COMPLETED after its last write was read, or
\* reports ERROR and sends its error, or closes its status channel without
\* either.
XferEnds ==
    /\ ftp.xfer = "running"
    /\ \/ /\ ftp.data = 0
          /\ ftp' = [ftp EXCEPT !.xfer = "completed", !.statusQ = Append(@, "COMPLETED")]
       \/ \E e \in XferErrors :
            ftp' = [ftp EXCEPT !.xfer = "failed", !.xferErr = e, !.errCh = e,
                               !.statusQ = Append(@, "ERROR")]
       \/ /\ ftp.data = 0
          /\ ftp' = [ftp EXCEPT !.xfer = "abandoned", !.statusQ = Append(@, "closed")]
    /\ UNCHANGED <<conf, ctVars, rtVars, dialVars, urlVars, rmVars, concVars, logVars>>

\* The monitoring task receives the next status.
MonitorStatus ==
    /\ ftp.mon = "ranging"
    /\ ftp.statusQ # <<>>
    /\ ftp' = [monitorStatus(ftp, Head(ftp.statusQ)) EXCEPT !.statusQ = Tail(@)]
    /\ UNCHANGED <<conf, ctVars, rtVars, dialVars, urlVars, rmVars, concVars, logVars>>

\* The monitoring task receives the error of the transfer.
MonitorError ==
    /\ ftp.mon = "awaitError"
    /\ ftp.errCh # "none"
    /\ ftp' = monitorError(ftp)
    /\ UNCHANGED <<conf, ctVars, rtVars, dialVars, urlVars, rmVars, concVars, logVars>>

\* The consumer calls Read on the response body, the read end of the pipe.
ConsumerRead ==
    /\ ftp.resp = "200"
    /\ ftp.cons = "idle"
    /\ ftp.consRes \in {"none", "data"}
    /\ ftp' = [ftp EXCEPT !.cons = "blocked"]
    /\ UNCHANGED <<conf, ctVars, rtVars, dialVars, urlVars, rmVars, concVars, logVars>>

\* The Read returns: with what the pipe was closed with, or else with the
\* data of a waiting write.
ConsumerReadReturns ==
    /\ ftp.cons = "blocked"
    /\ \/ /\ ftp.pipe # "open"
          /\ ftp' = [ftp EXCEPT !.cons = "idle", !.consRes = ftp.pipe]
       \/ /\ ftp.pipe = "open"
          /\ ftp.data = 1
          /\ ftp' = [ftp EXCEPT !.cons = "idle", !.consRes = "data", !.data = 0,
                                !.sent = @ + 1]
    /\ UNCHANGED <<conf, ctVars, rtVars, dialVars, urlVars, rmVars, concVars, logVars>>

(***************************************************************************)
(* CSVLog and customCSVLog (log.go).                                       *)
(*                                                                         *)
(* Callers run customCSVLog, CSVLog.Open and CSVLog.Log concurrently, one  *)
(* step of a call at a time.  A file is a number: 0 is nil, Stdout is      *)
(* os.Stdout, the others are handed out by os.OpenFile.  A csv.Writer is   *)
(* the file it writes to and the records it has buffered.                  *)
(***************************************************************************)
Callers == 1..MaxCallers

LogPaths == {"p", "q"}

Stdout == 1

\* a CSVLog that new(CSVLog) has not made yet, and the one it makes
NoLog == [made |-> FALSE, lock |-> 0, file |-> 0, path |-> "", csv |-> 0, buf |-> <<>>]
NewLog == [NoLog EXCEPT !.made = TRUE]

IdleCaller == [pc |-> "idle", op |-> "", path |-> "", l |-> 0, ret |-> 0]

logLockFree_Unlocked(l) == TRUE

\* l.lock.Lock() can go on: no caller holds the lock of the CSVLog l
logLockFree(l) == logs.obj[l].lock = 0

\* customLogLock.Lock() can go on
customLogLockFree == logs.customLogLock = 0

\* lines 48-52 of Open: close the file, unless it is nil or os.Stdout
openClose(lg, l) ==
    LET o == lg.obj[l]
    IN IF o.file # 0 /\ o.file # Stdout
       THEN [lg EXCEPT !.files[o.file].state = "closed",
                       !.obj[l].file = 0, !.obj[l].path = ""]
       ELSE lg

\* lines 54-67 of Open: open the file named filename (ok says whether
\* os.OpenFile succeeds), fall back to os.Stdout, make the csv.Writer
openFinish(lg, l, filename, ok) ==
    LET f == IF filename # "" /\ ok THEN lg.nextFile
             ELSE IF lg.obj[l].file = 0 THEN Stdout ELSE lg.obj[l].file
        opened == filename # "" /\ ok
    IN [lg EXCEPT !.obj[l].file = f,
                  !.obj[l].path = IF opened THEN filename ELSE @,
                  !.obj[l].csv = f,
                  !.obj[l].buf = <<>>,
                  !.files[f].state = "open",
                  !.nextFile = IF opened THEN @ + 1 ELSE @]

\* l.csv.Write(data): the record goes to the buffer of the writer
logWrite(lg, l, data) == [lg EXCEPT !.obj[l].buf = Append(@, data)]

\* l.csv.Flush(): the buffer goes to the file of the writer; a write to a
\* closed file fails and the records are lost
logFlush(lg, l, data) ==
    LET o == lg.obj[l]
    IN [lg EXCEPT !.obj[l].buf = <<>>,
                  !.files[o.csv].content =
                        IF lg.files[o.csv].state = "open" THEN Append(@, o.buf) ELSE @,
                  !.stale = @ \/ lg.files[o.csv].state # "open",
                  !.torn = @ \/ o.buf # <<data>>,
                  !.records = @ + 1]

LogInit ==
    /\ logs = [customLogs |-> [pa \in LogPaths |-> 0], customLogLock |-> 0,
               obj |-> [l \in 1..MaxLogs |-> NoLog], nextLog |-> 1,
               files |-> [f \in 1..(MaxLogFiles + 1) |->
                            [state |-> IF f = Stdout THEN "open" ELSE "none",
                             content |-> <<>>]],
               nextFile |-> 2, created |-> [pa \in LogPaths |-> 0],
               stale |-> FALSE, torn |-> FALSE, records |-> 0]
    /\ callers = [p \in Callers |-> IdleCaller]

\* lines 324-330 of customCSVLog: the path is unpacked and customLogLock taken
CustomLock(p) ==
    /\ callers[p].pc = "idle"
    /\ customLogLockFree
    /\ \E pa \in LogPaths :
         callers' = [callers EXCEPT ![p] = [IdleCaller EXCEPT !.pc = "cLocked",
                                               !.op = "custom", !.path = pa]]
    /\ logs' = [logs EXCEPT !.customLogLock = p]
    /\ UNCHANGED <<conf, ctVars, rtVars, dialVars, urlVars, rmVars, concVars, ftp>>

\* lines 332-338: the lookup; a hit returns the log and releases
\* customLogLock, a miss makes a CSVLog and enters its Open, whose lock is free
CustomLookup(p) ==
    /\ callers[p].pc = "cLocked"
    /\ LET pa == callers[p].path
           hit == logs.customLogs[pa]
       IN IF hit # 0
          THEN /\ callers' = [callers EXCEPT ![p].pc = "done", ![p].ret = hit]
               /\ logs' = [logs EXCEPT !.customLogLock = 0]
          ELSE /\ logs.nextLog <= MaxLogs
               /\ callers' = [callers EXCEPT ![p].pc = "oLocked", ![p].l = logs.nextLog]
               /\ logs' = [logs EXCEPT !.obj[logs.nextLog] = [NewLog EXCEPT !.lock = p],
                                       !.nextLog = @ + 1,
                                       !.created[pa] = @ + 1]
    /\ UNCHANGED <<conf, ctVars, rtVars, dialVars, urlVars, rmVars, concVars, ftp>>

\* lines 339-340: the opened log is stored under its path, customLogLock is
\* released and the log returned
CustomStore(p) ==
    /\ callers[p].pc = "cStore"
    /\ logs' = [logs EXCEPT !.customLogs[callers[p].path] = callers[p].l,
                            !.customLogLock = 0]
    /\ callers' = [callers EXCEPT ![p].pc = "done", ![p].ret = callers[p].l]
    /\ UNCHANGED <<conf, ctVars, rtVars, dialVars, urlVars, rmVars, concVars, ftp>>

\* lines 46-47: a caller calls Open(filename) on a log it got from
\* customCSVLog, and takes its lock
OpenLock(p) ==
    /\ callers[p].pc = "idle"
    /\ \E pa \in LogPaths, filename \in LogPaths \cup {""} :
         LET l == logs.customLogs[pa]
         IN /\ l # 0
            /\ logLockFree(l)
            /\ callers' = [callers EXCEPT ![p] = [IdleCaller EXCEPT !.pc = "oLocked",
                                !.op = "open", !.path = filename, !.l = l]]
            /\ logs' = [logs EXCEPT !.obj[l].lock = p]
    /\ UNCHANGED <<conf, ctVars, rtVars, dialVars, urlVars, rmVars, concVars, ftp>>

\* lines 48-52
OpenClose(p) ==
    /\ callers[p].pc = "oLocked"
    /\ logs' = openClose(logs, callers[p].l)
    /\ callers' = [callers EXCEPT ![p].pc = "oClosed"]
    /\ UNCHANGED <<conf, ctVars, rtVars, dialVars, urlVars, rmVars, concVars, ftp>>

\* lines 54-68: the rest of Open, and the release of the lock
OpenFinish(p) ==
    /\ callers[p].pc = "oClosed"
    /\ \E ok \in (IF callers[p].path # "" /\ logs.nextFile <= MaxLogFiles + 1
                  THEN BOOLEAN ELSE {FALSE}) :
         logs' = [openFinish(logs, callers[p].l, callers[p].path, ok)
                    EXCEPT !.obj[callers[p].l].lock = 0]
    /\ callers' = [callers EXCEPT ![p].pc = IF callers[p].op = "custom" THEN "cStore"
                                            ELSE "done"]
    /\ UNCHANGED <<conf, ctVars, rtVars, dialVars, urlVars, rmVars, concVars, ftp>>

\* lines 71-72: a caller calls Log(data) on a log it got from customCSVLog,
\* and takes its lock; the record carries the caller's number
LogLock(p) ==
    /\ callers[p].pc = "idle"
    /\ logs.records < MaxRecords
    /\ \E pa \in LogPaths :
         LET l == logs.customLogs[pa]
         IN /\ l # 0
            /\ logLockFree(l)
            /\ callers' = [callers EXCEPT ![p] = [IdleCaller EXCEPT !.pc = "lLocked",
                                !.op = "log", !.l = l]]
            /\ logs' = [logs EXCEPT !.obj[l].lock = p]
    /\ UNCHANGED <<conf, ctVars, rtVars, dialVars, urlVars, rmVars, concVars, ftp>>

\* line 73
LogWrite(p) ==
    /\ callers[p].pc = "lLocked"
    /\ logs' = logWrite(logs, callers[p].l, p)
    /\ callers' = [callers EXCEPT ![p].pc = "lWritten"]
    /\ UNCHANGED <<conf, ctVars, rtVars, dialVars, urlVars, rmVars, concVars, ftp>>

\* line 74, and the release of the lock
LogFlush(p) ==
    /\ callers[p].pc = "lWritten"
    /\ logs' = [logFlush(logs, callers[p].l, p) EXCEPT !.obj[callers[p].l].lock = 0]
    /\ callers' = [callers EXCEPT ![p].pc = "done"]
    /\ UNCHANGED <<conf, ctVars, rtVars, dialVars, urlVars, rmVars, concVars, ftp>>

\* The caller has its result and is free for its next call.
CallReturns(p) ==
    /\ callers[p].pc = "done"
    /\ callers' = [callers EXCEPT ![p] = IdleCaller]
    /\ UNCHANGED <<conf, ctVars, rtVars, dialVars, urlVars, rmVars, concVars, ftp, logs>>

(***************************************************************************)
(* Strings.  A string is a sequence of one-character strings; indices and  *)
(* slices are Go's: from 0, the upper end excluded.                        *)
(***************************************************************************)
Lower(c) ==
    CASE c = "A" -> "a"
      [] c = "B" -> "b"
      [] c = "S" -> "s"
      [] c = "H" -> "h"
      [] c = "U+00DC" -> "U+00FC"
      [] OTHER -> c

\* strings.ToLower
ToLower(s) == [i \in 1..Len(s) |-> Lower(s[i])]

\* s[lo:hi]
Slice(s, lo, hi) == SubSeq(s, lo + 1, hi)

\* strings.Index(s, c) for a one-character c
Index(s, c) ==
    IF \E i \in 1..Len(s) : s[i] = c
    THEN (CHOOSE i \in 1..Len(s) : s[i] = c /\ \A j \in 1..(i - 1) : s[j] # c) - 1
    ELSE -1

\* strings.LastIndex(s, c) for a one-character c
LastIndex(s, c) ==
    IF \E i \in 1..Len(s) : s[i] = c
    THEN (CHOOSE i \in 1..Len(s) : s[i] = c /\ \A j \in (i + 1)..Len(s) : s[j] # c) - 1
    ELSE -1

\* strings.Contains
Contains(s, sub) ==
    \E i \in 0..(Len(s) - Len(sub)) : Slice(s, i, i + Len(sub)) = sub

\* strings.HasPrefix
HasPrefix(s, pre) ==
    Len(pre) <= Len(s) /\ Slice(s, 0, Len(pre)) = pre

RECURSIVE Split(_, _)
\* strings.Split(s, c) for a one-character c
Split(s, c) ==
    LET i == Index(s, c)
    IN IF i = -1 THEN <<s>>
       ELSE <<Slice(s, 0, i)>> \o Split(Slice(s, i + 1, Len(s)), c)

RECURSIVE Join(_, _)
\* strings.Join(parts, c)
Join(parts, c) ==
    IF Len(parts) = 0 THEN <<>>
    ELSE IF Len(parts) = 1 THEN parts[1]
    ELSE parts[1] \o <<c>> \o Join(Tail(parts), c)

\* strings.Replace(s, a, b, -1) for one-character a and b
ReplaceAll(s, a, b) == [i \in 1..Len(s) |-> IF s[i] = a THEN b ELSE s[i]]

(***************************************************************************)
(* Regular expressions.  The patterns the model uses are listed in         *)
(* Patterns, each with what regexp.Compile and regexStrings make of it:    *)
(* ok says whether it compiles; the compiled pattern matches a text that   *)
(* contains one of the alternatives alts (at its start, if anchored); lits *)
(* says whether regexStrings extracts the literals the pattern requires,   *)
(* which are then its alternatives.                                        *)
(***************************************************************************)
Patterns == {
    \* ^a\.
    [src |-> <<"^", "a", "\\", ".">>, ok |-> TRUE, anchored |-> TRUE,
     alts |-> {<<"a", ".">>}, lits |-> TRUE],
    \* sx
    [src |-> <<"s", "x">>, ok |-> TRUE, anchored |-> FALSE,
     alts |-> {<<"s", "x">>}, lits |-> TRUE],
    \* a\+b
    [src |-> <<"a", "\\", "+", "b">>, ok |-> TRUE, anchored |-> FALSE,
     alts |-> {<<"a", "+", "b">>}, lits |-> TRUE],
    \* //b|a/
    [src |-> <<"/", "/", "b", "|", "a", "/">>, ok |-> TRUE, anchored |-> FALSE,
     alts |-> {<<"/", "/", "b">>, <<"a", "/">>}, lits |-> TRUE],
    \* a?, which matches every text
    [src |-> <<"a", "?">>, ok |-> TRUE, anchored |-> FALSE,
     alts |-> {<<>>}, lits |-> TRUE],
    \* (?i)b, of which regexStrings extracts nothing
    [src |-> <<"(", "?", "i", ")", "b">>, ok |-> TRUE, anchored |-> FALSE,
     alts |-> {<<"b">>, <<"B">>}, lits |-> FALSE],
    \* a pattern that does not compile
    [src |-> <<"(">>, ok |-> FALSE, anchored |-> FALSE, alts |-> {}, lits |-> FALSE] }

\* regexp.Compile(s): the compiled pattern re, or an error
regexpCompile(s) ==
    LET pat == CHOOSE x \in Patterns : x.src = s
    IN [err |-> ~pat.ok, re |-> pat]

\* (*regexp.Regexp).MatchString
MatchString(re, s) ==
    \E a \in re.alts : IF re.anchored THEN HasPrefix(s, a) ELSE Contains(s, a)

\* regexStrings(s): the literals of which every match of s contains one, or
\* an error
regexStrings(s) ==
    LET pat == CHOOSE x \in Patterns : x.src = s
    IN IF pat.lits THEN [err |-> FALSE, ss |-> pat.alts] ELSE [err |-> TRUE, ss |-> {}]

\* stringSet.minLen
minLen(ss) ==
    IF ss = {} THEN 0
    ELSE CHOOSE n \in {Len(x) : x \in ss} : \A x \in ss : n <= Len(x)

\* The phrases a scanner over the phrase list reports while it is fed s byte
\* by byte: every phrase of the list that occurs in s.
scanPhrases(stringList, s) == {ph \in stringList : Contains(s, ph)}

\* newRegexMap
newRegexMap == [stringList |-> {}, rules |-> <<>>]

\* rm.rules[p], the empty list when p is no key
rulesAt(rm, ph) ==
    LET hit == {i \in 1..Len(rm.rules) : rm.rules[i].key = ph}
    IN IF hit = {} THEN <<>> ELSE rm.rules[CHOOSE i \in hit : TRUE].list

\* rm.rules[p] = append(rm.rules[p], rr)
appendRule(rm, ph, rr) ==
    IF \E i \in 1..Len(rm.rules) : rm.rules[i].key = ph
    THEN [rm EXCEPT !.rules = [i \in 1..Len(rm.rules) |->
                        IF rm.rules[i].key = ph
                        THEN [key |-> ph, list |-> Append(rm.rules[i].list, rr)]
                        ELSE rm.rules[i]]]
    ELSE [rm EXCEPT !.rules = Append(@, [key |-> ph, list |-> <<rr>>])]

RECURSIVE addPhrases(_, _, _)
\* the loop of addRule over the literals ss of rule r
addPhrases(rm, ss, rr) ==
    IF ss = {} THEN rm
    ELSE LET ph == CHOOSE x \in ss : TRUE
             rm1 == appendRule([rm EXCEPT !.stringList = @ \cup {ph}], ph, rr)
         IN addPhrases(rm1, ss \ {ph}, rr)

\* regexMap.addRule
addRule(rm, r) ==
    LET c == regexpCompile(r.content)
    IN IF c.err THEN rm
       ELSE LET x == regexStrings(r.content)
            IN IF x.err \/ minLen(x.ss) = 0
               THEN appendRule(rm, <<>>, [rule |-> r, re |-> c.re])
               ELSE addPhrases(rm, x.ss, [rule |-> r, re |-> c.re])

\* the rules of a list of regexRules that match s
matchesIn(list, s) ==
    {list[i].rule : i \in {j \in 1..Len(list) : MatchString(list[j].re, s)}}

findMatches_OnlyScanned(rm, s) ==
    UNION {matchesIn(rulesAt(rm, ph), s) : ph \in scanPhrases(rm.stringList, s)}

\* regexMap.findMatches: the rules it adds to the tally
findMatches(rm, s) ==
    UNION {matchesIn(rulesAt(rm, ph), s) : ph \in scanPhrases(rm.stringList, s)}
      \cup matchesIn(rulesAt(rm, <<>>), s)

(***************************************************************************)
(* URLMatcher.  A rule is a record of its type t, its content (a fragment  *)
(* key or a pattern) and an id that tells apart rules of equal content.    *)
(* The fragment map is the set of its entries, one for each key.           *)
(***************************************************************************)
newURLMatcher ==
    [fragments |-> {}, regexes |-> newRegexMap, hostRegexes |-> newRegexMap,
     pathRegexes |-> newRegexMap, queryRegexes |-> newRegexMap]

\* r, ok := m.fragments[k]: the set of the rule found
fragmentAt(frags, k) == {e.rule : e \in {x \in frags : x.key = k}}

\* URLMatcher.AddRule
AddRule(m, r) ==
    CASE r.t = "urlMatch" ->
            [m EXCEPT !.fragments =
                {e \in @ : e.key # r.content} \cup {[key |-> r.content, rule |-> r]}]
      [] r.t = "urlRegex" -> [m EXCEPT !.regexes = addRule(@, r)]
      [] r.t = "hostRegex" -> [m EXCEPT !.hostRegexes = addRule(@, r)]
      [] r.t = "pathRegex" -> [m EXCEPT !.pathRegexes = addRule(@, r)]
      [] r.t = "queryRegex" -> [m EXCEPT !.queryRegexes = addRule(@, r)]
      [] OTHER -> m

stripPort_AtLastColon(host) ==
    LET colon == LastIndex(host, ":")
    IN IF colon # -1 THEN Slice(host, 0, colon) ELSE host

\* lines 133-138: strip off the port number, if present
stripPort(host) ==
    LET colon == LastIndex(host, ":")
    IN IF colon # -1 /\ ~Contains(Slice(host, colon, Len(host)), <<"]">>)
       THEN Slice(host, 0, colon)
       ELSE host

ACEPrefix == <<"x", "n", "-", "-">>

\* punycode.DecodeString on the labels the model uses: "u" decodes to one
\* non-ASCII letter, everything else is not valid punycode
punyDecode(s) ==
    IF s = <<"u">> THEN [err |-> FALSE, s |-> <<"U+00DC">>]
    ELSE [err |-> TRUE, s |-> <<>>]

\* lines 140-153: handle internationalized domain names
decodeIDN(host) ==
    IF Contains(host, ACEPrefix)
    THEN LET labels == Split(host, ".")
             dec(l) == IF HasPrefix(l, ACEPrefix)
                       THEN LET d == punyDecode(Slice(l, Len(ACEPrefix), Len(l)))
                            IN IF d.err THEN l ELSE d.s
                       ELSE l
         IN ToLower(Join([i \in 1..Len(labels) |-> dec(labels[i])], "."))
    ELSE host

RECURSIVE queryUnescape(_)
\* url.QueryUnescape on the escapes the model uses
queryUnescape(q) ==
    IF q = <<>> THEN [err |-> FALSE, s |-> <<>>]
    ELSE IF q[1] = "%"
    THEN IF Len(q) >= 3 /\ <<q[2], q[3]>> \in {<<"4", "1">>, <<"2", "0">>}
         THEN LET r == queryUnescape(SubSeq(q, 4, Len(q)))
              IN [err |-> r.err,
                  s |-> <<IF q[2] = "4" THEN "A" ELSE " ">> \o r.s]
         ELSE [err |-> TRUE, s |-> <<>>]
    ELSE LET r == queryUnescape(Tail(q))
         IN [err |-> r.err, s |-> <<IF q[1] = "+" THEN " " ELSE q[1]>> \o r.s]

\* lines 168-174: the query as it is matched
matchedQuery(raw) ==
    LET query == ToLower(raw)
        q == queryUnescape(query)
    IN IF query # <<>> /\ ~q.err THEN ReplaceAll(q.s, " ", "+") ELSE query

RECURSIVE pathWalk(_, _)
pathWalk_TrimSlashToo(frags, s2) ==
    LET hit == fragmentAt(frags, s2)
    IN IF Len(s2) = 0
       THEN [hits |-> hit, panic |-> TRUE]
       ELSE LET slash == LastIndex(Slice(s2, 0, Len(s2) - 1), "/")
            IN IF slash = -1
               THEN [hits |-> hit, panic |-> FALSE]
               ELSE LET rest == pathWalk(frags, Slice(s2, 0, slash))
                    IN [hits |-> hit \cup rest.hits, panic |-> rest.panic]

\* lines 186-195, from candidate s2 on: the rules found, and whether the
\* slice s2[:len(s2)-1] was out of range
pathWalk(frags, s2) ==
    LET hit == fragmentAt(frags, s2)
    IN IF Len(s2) = 0
       THEN [hits |-> hit, panic |-> TRUE]
       ELSE LET slash == LastIndex(Slice(s2, 0, Len(s2) - 1), "/")
            IN IF slash = -1
               THEN [hits |-> hit, panic |-> FALSE]
               ELSE LET rest == pathWalk(frags, Slice(s2, 0, slash + 1))
                    IN [hits |-> hit \cup rest.hits, panic |-> rest.panic]

RECURSIVE hostWalk(_, _, _)
\* lines 182-205, from s on
hostWalk(frags, s, path) ==
    LET a == pathWalk(frags, s \o path)
    IN IF a.panic THEN a
       ELSE LET hit == a.hits \cup fragmentAt(frags, s)
                dot == Index(s, ".")
            IN IF dot = -1
               THEN [hits |-> hit, panic |-> FALSE]
               ELSE LET rest == hostWalk(frags, Slice(s, dot + 1, Len(s)), path)
                    IN [hits |-> hit \cup rest.hits, panic |-> rest.panic]

\* lines 131-177: the host, path and query as they are matched, and the
\* URL string put together from them
urlParts(u) ==
    LET host == decodeIDN(stripPort(ToLower(u.Host)))
        path == ToLower(u.Path)
        query == matchedQuery(u.RawQuery)
    IN [host |-> host, path |-> path, query |-> query,
        url |-> (IF u.Scheme # <<>> THEN ToLower(u.Scheme) \o <<":">> ELSE <<>>)
                \o (IF host # <<>> THEN <<"/", "/">> \o host ELSE <<>>)
                \o path
                \o (IF query # <<>> THEN <<"?">> \o query ELSE <<>>)]

\* URLMatcher.MatchingRules: the tally it returns (the set of its keys), or
\* the panic it ends in
MatchingRules(mt, u) ==
    LET pt == urlParts(u)
        regexHits == (IF pt.host # <<>> THEN findMatches(mt.hostRegexes, pt.host) ELSE {})
                     \cup findMatches(mt.pathRegexes, pt.path)
                     \cup (IF pt.query # <<>> THEN findMatches(mt.queryRegexes, pt.query)
                           ELSE {})
                     \cup findMatches(mt.regexes, pt.url)
        walk == hostWalk(mt.fragments, pt.host, pt.path)
    IN IF walk.panic
       THEN [panic |-> TRUE, tally |-> {}]
       ELSE [panic |-> FALSE, tally |-> regexHits \cup walk.hits]

(***************************************************************************)
(* The URLs and rules the matcher is exercised with.                       *)
(***************************************************************************)
Labels == {<<"a">>, <<"b">>}

\* the host names of at most n labels
DomainNames(n) == {Join(ls, ".") : ls \in UNION {[1..k -> Labels] : k \in 1..n}}

\* hosts that are no plain lower-case domain name: empty, with an empty
\* label, in upper case, an IPv6 literal, with labels in punycode
SpecialHosts == {
    <<>>, <<"a", ".">>, <<"b", ".", "a", ".">>, <<".", "b">>, <<"A", ".", "B">>,
    <<"[", ":", "1", "]">>,
    <<"x", "n", "-", "-", "u", ".", "a">>, <<"x", "n", "-", "-", "b", ".", "a">> }

PortSuffix == <<":", "8">>

URLHosts ==
    LET base == DomainNames(MaxLabels) \cup SpecialHosts
    IN base \cup {h \o PortSuffix : h \in base}

Segments == {<<"s">>, <<"s", "x">>, <<>>}

\* the paths of at most n segments
PathsOf(n) ==
    {<<>>} \cup {<<"/">> \o Join(sg, "/") : sg \in UNION {[1..k -> Segments] : k \in 1..n}}

URLPaths == PathsOf(MaxSegs) \cup {<<"/", "S">>}

Queries == {<<"q">>, <<"a", "+", "b">>, <<"%", "4", "1">>, <<"%", "z">>}

URLs ==
    {[Scheme |-> <<"h">>, Host |-> h, Path |-> pa, RawQuery |-> <<>>] :
        h \in URLHosts, pa \in URLPaths}
    \cup {[Scheme |-> s, Host |-> <<"a", ".", "b">>, Path |-> <<"/", "s">>, RawQuery |-> q] :
        s \in {<<>>, <<"H">>}, q \in Queries}

\* the keys of fragment rules: a host, or a host and a path
FragmentKeys ==
    {h \o pa : h \in DomainNames(MaxKeyLabels) \cup {<<"a", ".">>, <<"[", ":", "1", "]">>},
               pa \in PathsOf(1) \cup {<<"/", "s", "/">>}}

\* the regex rules: a pattern and the tier it is written for
RegexRuleKinds == {
    [t |-> "hostRegex", content |-> <<"^", "a", "\\", ".">>],
    [t |-> "pathRegex", content |-> <<"s", "x">>],
    [t |-> "queryRegex", content |-> <<"a", "\\", "+", "b">>],
    [t |-> "urlRegex", content |-> <<"/", "/", "b", "|", "a", "/">>],
    [t |-> "urlRegex", content |-> <<"a", "?">>],
    [t |-> "urlRegex", content |-> <<"(">>] }

\* the rules AddRule is called with as the id-th rule
RulePool(id) ==
    {[id |-> id, t |-> "urlMatch", content |-> k] : k \in FragmentKeys}
    \cup {[id |-> id, t |-> r.t, content |-> r.content] : r \in RegexRuleKinds}

NoURL == [Scheme |-> <<>>, Host |-> <<>>, Path |-> <<>>, RawQuery |-> <<>>]
NoMatch == [called |-> FALSE, u |-> NoURL, panic |-> FALSE, tally |-> {}]

URLInit ==
    /\ matcher = newURLMatcher
    /\ loaded = [n |-> 0, added |-> <<>>, finalized |-> FALSE]
    /\ urlLast = NoMatch

\* The loader calls AddRule; all rules are added before finalize.
LoadRule ==
    /\ ~loaded.finalized
    /\ loaded.n < MaxRules
    /\ \E r \in RulePool(loaded.n + 1) :
         /\ matcher' = AddRule(matcher, r)
         /\ loaded' = [loaded EXCEPT !.n = @ + 1, !.added = Append(@, r)]
    /\ UNCHANGED <<conf, ctVars, rtVars, dialVars, urlLast, rmVars, concVars, ftp, logVars>>

\* URLMatcher.finalize, called once after the rules are added
Finalize ==
    /\ ~loaded.finalized
    /\ loaded' = [loaded EXCEPT !.finalized = TRUE]
    /\ UNCHANGED <<conf, ctVars, rtVars, dialVars, matcher, urlLast, rmVars, concVars, ftp, logVars>>

\* One MatchingRules call on the finalized matcher.
Match ==
    /\ loaded.finalized
    /\ ~urlLast.called
    /\ \E u \in URLs :
         LET res == MatchingRules(matcher, u)
         IN urlLast' = [called |-> TRUE, u |-> u, panic |-> res.panic, tally |-> res.tally]
    /\ UNCHANGED <<conf, ctVars, rtVars, dialVars, matcher, loaded, rmVars, concVars, ftp, logVars>>

\* The caller is done with the tally of the last call.
TallyConsumed ==
    /\ urlLast.called
    /\ urlLast' = NoMatch
    /\ UNCHANGED <<conf, ctVars, rtVars, dialVars, matcher, loaded, rmVars, concVars, ftp, logVars>>

(***************************************************************************)
(* A regexMap on its own: rules are added, the phrase list is finalized,   *)
(* texts are matched.                                                      *)
(***************************************************************************)
TextChars == {"a", "b", "B", "s", "x", ".", "/"}

Texts == UNION {[1..k -> TextChars] : k \in 0..MaxTextLen}

NoFind == [called |-> FALSE, s |-> <<>>, tally |-> {}]

RMInit ==
    /\ regexes = newRegexMap
    /\ rmAdded = [rules |-> {}, finalized |-> FALSE]
    /\ rmLast = NoFind

\* regexMap.addRule with a rule of some pattern
RMAddRule ==
    /\ ~rmAdded.finalized
    /\ Cardinality(rmAdded.rules) < MaxRegexRules
    /\ \E pat \in Patterns :
         LET r == [id |-> Cardinality(rmAdded.rules) + 1, t |-> "urlRegex",
                   content |-> pat.src]
         IN /\ regexes' = addRule(regexes, r)
            /\ rmAdded' = [rmAdded EXCEPT !.rules = @ \cup {r}]
    /\ UNCHANGED <<conf, ctVars, rtVars, dialVars, urlVars, rmLast, concVars, ftp, logVars>>

\* rm.stringList.findFallbackNodes(0, nil), as URLMatcher.finalize calls it
RMFinalize ==
    /\ ~rmAdded.finalized
    /\ rmAdded' = [rmAdded EXCEPT !.finalized = TRUE]
    /\ UNCHANGED <<conf, ctVars, rtVars, dialVars, urlVars, regexes, rmLast, concVars, ftp, logVars>>

\* One findMatches call, into an empty tally.
RMFindMatches ==
    /\ rmAdded.finalized
    /\ ~rmLast.called
    /\ \E s \in Texts : rmLast' = [called |-> TRUE, s |-> s, tally |-> findMatches(regexes, s)]
    /\ UNCHANGED <<conf, ctVars, rtVars, dialVars, urlVars, regexes, rmAdded, concVars, ftp, logVars>>

\* The caller is done with the tally of the last call.
RMTallyConsumed ==
    /\ rmLast.called
    /\ rmLast' = NoFind
    /\ UNCHANGED <<conf, ctVars, rtVars, dialVars, urlVars, regexes, rmAdded, concVars, ftp, logVars>>

(***************************************************************************)
(* Concurrent MatchingRules calls on one finalized URLMatcher.  A call     *)
(* goes through the four tiers in the order of the code (the host tier and *)
(* the query tier are skipped for an empty host or query), then walks the  *)
(* fragment map.  In a tier, the scanner reports the phrases of the text   *)
(* one callback at a time (todo holds those still to come), then the rules *)
(* without a literal are tried.                                            *)
(***************************************************************************)
Procs == 1..MaxProcs

ConcURLs == {
    [Scheme |-> <<"h">>, Host |-> <<"a", ".", "b">>, Path |-> <<"/", "s">>, RawQuery |-> <<>>],
    [Scheme |-> <<"h">>, Host |-> <<"b">>, Path |-> <<"/", "s", "x">>, RawQuery |-> <<"q">>],
    [Scheme |-> <<>>, Host |-> <<>>, Path |-> <<>>, RawQuery |-> <<>>] }

\* the rules the matcher is loaded with before calls run concurrently
ConcRulePool(id) ==
    {[id |-> id, t |-> "urlMatch", content |-> <<"b">>],
     [id |-> id, t |-> "hostRegex", content |-> <<"^", "a", "\\", ".">>],
     [id |-> id, t |-> "urlRegex", content |-> <<"/", "/", "b", "|", "a", "/">>],
     [id |-> id, t |-> "urlRegex", content |-> <<"a", "?">>]}

Tiers == <<"host", "path", "query", "url">>

\* the regexMap of tier number i
tierMap(mt, i) ==
    CASE i = 1 -> mt.hostRegexes
      [] i = 2 -> mt.pathRegexes
      [] i = 3 -> mt.queryRegexes
      [] OTHER -> mt.regexes

\* the text tier number i is run on
tierText(u, i) == urlParts(u)[Tiers[i]]

\* the first tier from i on that the call runs findMatches of; 5 if none
tierFrom(u, i) ==
    IF i = 1 /\ urlParts(u).host = <<>> THEN 2
    ELSE IF i = 3 /\ urlParts(u).query = <<>> THEN 4
    ELSE i

IdleProc == [pc |-> "idle", u |-> NoURL, tier |-> 0, todo |-> {}, result |-> {},
             panic |-> FALSE]

triedCell_Shared(p) == 0

\* the tried map of the findMatches call of caller p: a local of that call
triedCell(p) == p

\* caller p, in state pr, enters tier i or, past the last tier, the walk
enterTier(pr, i) ==
    IF i > Len(Tiers)
    THEN [pr EXCEPT !.pc = "walk", !.tier = 0, !.todo = {}]
    ELSE [pr EXCEPT !.pc = "scan", !.tier = i,
                    !.todo = scanPhrases(tierMap(matcher, i).stringList,
                                         tierText(pr.u, i))]

ConcInit ==
    /\ procs = [p \in Procs |-> IdleProc]
    /\ tried = [c \in {0} \cup Procs |-> {}]

\* The loader calls AddRule.
ConcLoadRule ==
    /\ ~loaded.finalized
    /\ loaded.n < MaxRules
    /\ \E r \in ConcRulePool(loaded.n + 1) :
         /\ matcher' = AddRule(matcher, r)
         /\ loaded' = [loaded EXCEPT !.n = @ + 1, !.added = Append(@, r)]
    /\ UNCHANGED <<conf, ctVars, rtVars, dialVars, urlLast, rmVars, concVars, ftp, logVars>>

\* lines 129-161: caller p starts MatchingRules(u) and reaches the first
\* findMatches call, which makes its tried map
ConcStart(p) ==
    /\ loaded.finalized
    /\ procs[p].pc = "idle"
    /\ \E u \in ConcURLs :
         LET pr == enterTier([IdleProc EXCEPT !.u = u], tierFrom(u, 1))
         IN /\ procs' = [procs EXCEPT ![p] = pr]
            /\ tried' = [tried EXCEPT ![triedCell(p)] = {}]
    /\ UNCHANGED <<conf, ctVars, rtVars, dialVars, urlVars, rmVars, ftp, logVars>>

\* lines 35-45: the scanner of caller p reports a phrase
ConcCallback(p) ==
    /\ procs[p].pc = "scan"
    /\ \E ph \in procs[p].todo :
         LET pr == procs[p]
             hits == IF ph \in tried[triedCell(p)] THEN {}
                     ELSE matchesIn(rulesAt(tierMap(matcher, pr.tier), ph),
                                    tierText(pr.u, pr.tier))
         IN /\ procs' = [procs EXCEPT ![p] = [pr EXCEPT !.todo = @ \ {ph},
                                                       !.result = @ \cup hits]]
            /\ tried' = [tried EXCEPT ![triedCell(p)] = @ \cup {ph}]
    /\ UNCHANGED <<conf, ctVars, rtVars, dialVars, urlVars, rmVars, ftp, logVars>>

\* lines 51-56: the scan of caller p is over, the rules without a literal
\* are tried, and the call goes on to its next findMatches call or to the walk
ConcBucket(p) ==
    /\ procs[p].pc = "scan"
    /\ procs[p].todo = {}
    /\ LET pr == procs[p]
           hits == matchesIn(rulesAt(tierMap(matcher, pr.tier), <<>>),
                             tierText(pr.u, pr.tier))
           nx == enterTier([pr EXCEPT !.result = @ \cup hits],
                           tierFrom(pr.u, pr.tier + 1))
       IN /\ procs' = [procs EXCEPT ![p] = nx]
          /\ tried' = IF nx.pc = "scan" THEN [tried EXCEPT ![triedCell(p)] = {}]
                      ELSE tried
    /\ UNCHANGED <<conf, ctVars, rtVars, dialVars, urlVars, rmVars, ftp, logVars>>

\* lines 181-207: caller p walks the fragment map and returns
ConcWalk(p) ==
    /\ procs[p].pc = "walk"
    /\ LET pr == procs[p]
           pt == urlParts(pr.u)
           walk == hostWalk(matcher.fragments, pt.host, pt.path)
       IN procs' = [procs EXCEPT ![p] =
                        IF walk.panic
                        THEN [pr EXCEPT !.pc = "done", !.panic = TRUE, !.result = {}]
                        ELSE [pr EXCEPT !.pc = "done", !.result = @ \cup walk.hits]]
    /\ UNCHANGED <<conf, ctVars, rtVars, dialVars, urlVars, rmVars, tried, ftp, logVars>>

\* The caller p is done with its tally.
ConcReturn(p) ==
    /\ procs[p].pc = "done"
    /\ procs' = [procs EXCEPT ![p] = IdleProc]
    /\ UNCHANGED <<conf, ctVars, rtVars, dialVars, urlVars, rmVars, tried, ftp, logVars>>

(***************************************************************************)
(* Specifications.                                                         *)
(***************************************************************************)
\* the connTransport alone
Init == ConfInit /\ CTInit /\ RTInit /\ DialInit /\ URLInit /\ RMInit /\ ConcInit /\ FTPInit /\ LogInit

Next == CTRoundTrip \/ CTRelease

Spec == Init /\ [][Next]_vars

\* the RetryTransport alone
\* connTransport with the reads of the response bodies
BodyNext == CTRoundTrip \/ CTRelease \/ BodyRead \/ BodyReadReturns \/ CancelRequest

SpecBody == Init /\ [][BodyNext]_vars

RetryNext == RTRoundTrip

SpecRetry == Init /\ [][RetryNext]_vars

\* dialWithExtraRootCerts alone
DialNext == Dial \/ ReloadConfig

SpecDial == Init /\ [][DialNext]_vars

\* the URLMatcher: rules are loaded, finalize runs, URLs are matched
MatchInit ==
    /\ conf = [Verbose |-> {}, ExtraRootCerts |-> FALSE]
    /\ ct = [Conn |-> 1, Redial |-> FALSE, br |-> 0, used |-> FALSE]
    /\ net = [closed |-> [i \in 1..MaxConns |-> 0], next |-> 2]
    /\ ctLast = NoObs
    /\ body = NoBody
    /\ RTInit /\ DialInit /\ URLInit /\ RMInit /\ ConcInit /\ FTPInit /\ LogInit

MatchNext == LoadRule \/ Finalize \/ Match \/ TallyConsumed

SpecMatch == MatchInit /\ [][MatchNext]_vars

\* a regexMap on its own
RegexNext == RMAddRule \/ RMFinalize \/ RMFindMatches \/ RMTallyConsumed

SpecRegex == MatchInit /\ [][RegexNext]_vars

\* an FTPTransport request
FTPNext ==
    \/ FTPRoundTrip
    \/ XferProgress \/ XferWrite \/ XferEnds
    \/ MonitorStatus \/ MonitorError
    \/ ConsumerRead \/ ConsumerReadReturns

SpecFTP == MatchInit /\ [][FTPNext]_vars

\* the monitoring task is scheduled, the error that goes with ERROR is
\* received, and a read of the pipe that can return does
SpecFTPLive ==
    /\ SpecFTP
    /\ WF_vars(MonitorStatus)
    /\ WF_vars(MonitorError)
    /\ WF_vars(ConsumerReadReturns)

\* concurrent customCSVLog, Open and Log calls
LogNext ==
    \E p \in Callers :
        \/ CustomLock(p) \/ CustomLookup(p) \/ CustomStore(p)
        \/ OpenLock(p) \/ OpenClose(p) \/ OpenFinish(p)
        \/ LogLock(p) \/ LogWrite(p) \/ LogFlush(p)
        \/ CallReturns(p)

SpecLog == MatchInit /\ [][LogNext]_vars

\* concurrent MatchingRules calls on a finalized matcher
ConcNext ==
    \/ ConcLoadRule
    \/ Finalize
    \/ \E p \in Procs :
         ConcStart(p) \/ ConcCallback(p) \/ ConcBucket(p) \/ ConcWalk(p) \/ ConcReturn(p)

SpecConc == MatchInit /\ [][ConcNext]_vars

(***************************************************************************)
(* The claims.                                                             *)
(***************************************************************************)
\* the kinds of error the claims call redial-worthy
RedialWorthyKinds == {"EOF", "unexpected EOF", "broken pipe", "no renegotiation"}

\* a request the claims call non-replayable: a non-empty body that cannot be
\* reproduced, or a method with side effects and no idempotency marker
ClaimNonReplayable(r) ==
    \/ r.Body = "reader" /\ ~r.GetBody
    \/ /\ r.Method \notin {"GET", "HEAD", "OPTIONS", "TRACE"}
       /\ r.Header \cap {"Idempotency-Key", "X-Idempotency-Key"} = {}

C3_RetriedOnceViaRedial ==
    (/\ ctLast.req # NoReq
     /\ ~ClaimNonReplayable(ctLast.req)
     /\ ctLast.firstErr.kind \in RedialWorthyKinds)
        => /\ ctLast.proactive = 0
           /\ ctLast.reactive = 1
           /\ ctLast.dials <= 1
           /\ ctLast.reErr = "nil"
                => /\ ctLast.dials = 1
                   /\ ctLast.exchanges = 2
                   /\ ct.Conn # ctLast.before.Conn
                   /\ net.closed[ctLast.before.Conn] = 1
                   /\ ct.br = ct.Conn
                   /\ \A i \in 2..Len(ctLast.writes) : ctLast.writes[i] = ct.Conn
                   /\ Len(ctLast.writes) <= 2
                   /\ \/ /\ ctLast.err = NoErr
                         /\ ctLast.resp = [conn |-> ct.Conn, at |-> 2]
                      \/ /\ ctLast.err # NoErr
                         /\ ctLast.err.at = 2
                         /\ ctLast.resp = NoResp

\* a GET whose first read failed with an unexpected EOF was retried on a new
\* connection and succeeded
C3_Witness ==
    /\ ctLast.req.Method = "GET"
    /\ ctLast.firstErr.kind = "unexpected EOF"
    /\ ctLast.reErr = "nil"
    /\ ctLast.exchanges = 2
    /\ ctLast.err = NoErr
    /\ ctLast.resp = [conn |-> ct.Conn, at |-> 2]

\* C4: for a non-replayable request connTransport.RoundTrip writes the
\* request to a connection at most once, whatever error the exchange yields,
\* and returns the error of that one exchange.
C4_NonReplayableWrittenOnce ==
    (ctLast.req # NoReq /\ ClaimNonReplayable(ctLast.req))
        => /\ Len(ctLast.writes) <= 1
           /\ ctLast.exchanges = 1
           /\ ctLast.reactive = 0
           /\ ctLast.err = ctLast.firstErr
           /\ ctLast.err # NoErr => (ctLast.err.at = 1 /\ ctLast.resp = NoResp)

\* a POST on a used session was written once, failed with a redial-worthy
\* error and returned it
C4_Witness ==
    /\ ctLast.req.Method = "POST"
    /\ ClaimNonReplayable(ctLast.req)
    /\ ctLast.before.used
    /\ Len(ctLast.writes) = 1
    /\ ctLast.err = Err("EOF", 1)

\* C5: for a non-replayable request RetryTransport.RoundTrip invokes the
\* wrapped transport exactly once and returns the response and error of that
\* invocation, whatever they are.
C5_NonReplayablePassesThrough ==
    (rtLast.calls > 0 /\ ClaimNonReplayable(rtLast.req))
        => /\ rtLast.calls = 1
           /\ IF rtLast.outs[1] = "ok"
              THEN rtLast.resp = [conn |-> 0, at |-> 1] /\ rtLast.err = NoErr
              ELSE rtLast.resp = NoResp /\ rtLast.err = Err(rtLast.outs[1], 1)

\* a non-replayable request whose one attempt failed with a redial-worthy error
C5_Witness ==
    /\ ClaimNonReplayable(rtLast.req)
    /\ rtLast.calls = 1
    /\ rtLast.err = Err("broken pipe", 1)

\* C10: after a successful TLS dial, dialWithExtraRootCerts returns the
\* connection with a nil error only if the chain verified against the system
\* roots or, an extra pool being configured, against that pool; otherwise it
\* closes the connection and returns no connection and an error.  The extra
\* pool is consulted only after verification against the system roots failed.
C10_ConnOnlyIfVerified ==
    dialLast.dialed
        => /\ \/ /\ dialLast.conn = dialLast.id
                 /\ dialLast.err = "nil"
                 /\ tlsConns[dialLast.id] = "open"
                 /\ \/ dialLast.in.sys
                    \/ dialLast.pool /\ dialLast.in.extra
              \/ /\ dialLast.conn = 0
                 /\ dialLast.err # "nil"
                 /\ tlsConns[dialLast.id] = "closed"
                 /\ ~dialLast.in.sys
                 /\ ~(dialLast.pool /\ dialLast.in.extra)
           /\ dialLast.extra # "none" => (dialLast.sys = "failed" /\ dialLast.pool)

\* a chain that failed against the system roots and against the extra pool:
\* the connection was closed and an error returned
C10_Witness ==
    /\ dialLast.dialed
    /\ dialLast.pool
    /\ dialLast.sys = "failed"
    /\ dialLast.extra = "failed"
    /\ dialLast.conn = 0
    /\ tlsConns[dialLast.id] = "closed"

\* the host and the path of a fragment key: the path starts at the first "/"
KeyHost(k) == IF Index(k, "/") = -1 THEN k ELSE Slice(k, 0, Index(k, "/"))
KeyPath(k) == IF Index(k, "/") = -1 THEN <<>> ELSE Slice(k, Index(k, "/"), Len(k))

\* the entries of the fragment map whose key is a host and a path that does
\* not end in "/"
PathEntries ==
    {e \in matcher.fragments :
        KeyPath(e.key) # <<>> /\ e.key[Len(e.key)] # "/"}

\* C2 as stated: a fragment rule with key h+p (p not ending in "/") is in the
\* tally for a URL with host h and path p, and for host h and a path that
\* extends p by whole segments, and is not in the tally for a path of which p
\* is a prefix that ends inside a segment.
C2_MatchesPathsBelow ==
    \A e \in PathEntries :
        LET h == KeyHost(e.key)
            pa == KeyPath(e.key)
            up == urlLast.u.Path
        IN (urlLast.called /\ urlLast.u.Host = h)
            => /\ up = pa => e.rule \in urlLast.tally
               /\ (HasPrefix(up, pa \o <<"/">>) /\ Len(up) > Len(pa) + 1)
                    => e.rule \in urlLast.tally
               /\ (HasPrefix(up, pa) /\ up # pa /\ ~HasPrefix(up, pa \o <<"/">>))
                    => e.rule \notin urlLast.tally

\* C2 amended: a fragment rule with key h+p (p not ending in "/") is in the
\* tally for a URL with host h and path p, and is in the tally for no other
\* path with host h: neither for a path that extends p by whole segments (the
\* walk trims the candidate back to a "/" and keeps that "/", so the
\* candidates below the full path all end in "/") nor for a path of which p
\* is a prefix that ends inside a segment.
C2_MatchesExactPathOnly ==
    \A e \in PathEntries :
        LET h == KeyHost(e.key)
            pa == KeyPath(e.key)
            up == urlLast.u.Path
        IN (urlLast.called /\ urlLast.u.Host = h)
            => /\ up = pa => e.rule \in urlLast.tally
               /\ (HasPrefix(up, pa) /\ up # pa) => e.rule \notin urlLast.tally

\* a rule with key a.b/s matched the URL with host a.b and path /s
C2_Witness ==
    /\ urlLast.called
    /\ urlLast.u.Host = <<"a", ".", "b">>
    /\ urlLast.u.Path = <<"/", "s">>
    /\ \E e \in PathEntries :
         e.key = <<"a", ".", "b", "/", "s">> /\ e.rule \in urlLast.tally

\* h2 is h1 with one or more non-empty labels put in front
IsSubdomain(h2, h1) ==
    /\ Len(h2) > Len(h1) + 1
    /\ Slice(h2, Len(h2) - Len(h1) - 1, Len(h2)) = <<".">> \o h1
    /\ LET pre == Slice(h2, 0, Len(h2) - Len(h1) - 1)
       IN /\ pre[1] # "."
          /\ \A i \in 1..(Len(pre) - 1) : ~(pre[i] = "." /\ pre[i + 1] = ".")

\* the entries of the fragment map whose key is a host
HostEntries == {e \in matcher.fragments : KeyPath(e.key) = <<>> /\ e.key # <<>>}

\* C6: a fragment rule with host key h1 is in the tally of every URL whose
\* host is h1 with one or more labels put in front, whatever the path; a rule
\* with such a longer key is not in the tally of a URL with host h1.
C6_SubdomainsMatch ==
    \A e \in HostEntries :
        /\ (urlLast.called /\ IsSubdomain(urlLast.u.Host, e.key))
                => e.rule \in urlLast.tally
        /\ (urlLast.called /\ IsSubdomain(e.key, urlLast.u.Host))
                => e.rule \notin urlLast.tally

\* the URL of the last call with the port suffix taken off its host
WithoutPort(u) == [u EXCEPT !.Host = Slice(@, 0, Len(@) - Len(PortSuffix))]

HasPort(u) ==
    /\ Len(u.Host) >= Len(PortSuffix)
    /\ Slice(u.Host, Len(u.Host) - Len(PortSuffix), Len(u.Host)) = PortSuffix

IPv6Host == <<"[", ":", "1", "]">>

\* C7: MatchingRules strips a trailing :port from the host before matching,
\* so the URL with host h:port has the tally of the URL with host h; a colon
\* inside a bracketed IPv6 literal is no port, and of a bracketed literal with
\* a port the bracketed literal is what is matched.
C7_PortStripped ==
    urlLast.called
        => /\ HasPort(urlLast.u)
                => LET res == MatchingRules(matcher, WithoutPort(urlLast.u))
                   IN urlLast.tally = res.tally /\ urlLast.panic = res.panic
           /\ urlLast.u.Host \in {IPv6Host, IPv6Host \o PortSuffix}
                => \A e \in matcher.fragments :
                     /\ e.key = IPv6Host \o urlLast.u.Path => e.rule \in urlLast.tally
                     /\ e.key = IPv6Host => e.rule \in urlLast.tally
                     /\ KeyHost(e.key) # IPv6Host => e.rule \notin urlLast.tally

\* the URL with host [:1]:8 matched a rule whose key is [:1]
C7_Witness ==
    /\ urlLast.called
    /\ urlLast.u.Host = IPv6Host \o PortSuffix
    /\ \E e \in matcher.fragments : e.key = IPv6Host /\ e.rule \in urlLast.tally

\* the rules added to the regexMap whose pattern compiles and matches s, each tested
\* on its own
MatchingIndividually(s) ==
    {r \in rmAdded.rules :
        /\ \E pat \in Patterns : pat.src = r.content /\ pat.ok
        /\ LET pat == CHOOSE x \in Patterns : x.src = r.content
           IN \E a \in pat.alts :
                IF pat.anchored THEN HasPrefix(s, a) ELSE Contains(s, a)}

\* C8: the rules findMatches records in the tally are the rules added with
\* addRule whose regex matches the text when each is tested on its own: the
\* pruning by literals drops no matching rule and adds no other.
C8_PruningIsExact ==
    rmLast.called => rmLast.tally = MatchingIndividually(rmLast.s)

\* a rule filed under a literal and a rule of the no-literal bucket were
\* both found, and a third rule, whose literal is not in the text, was not
C8_Witness ==
    /\ rmLast.called
    /\ Cardinality(rmAdded.rules) = 3
    /\ \E r1, r2, r3 \in rmAdded.rules :
         /\ r1.content = <<"s", "x">> /\ r1 \in rmLast.tally
         /\ r2.content = <<"a", "?">> /\ r2 \in rmLast.tally
         /\ r3.content = <<"^", "a", "\\", ".">> /\ r3 \notin rmLast.tally

\* C9: once finalize has run, MatchingRules calls, however they interleave,
\* leave the URLMatcher as it is, and every call returns the tally that a
\* call on its own returns for its URL; so calls with the same URL return
\* equal tallies.
C9_ConcurrentMatchingAgrees ==
    /\ [][loaded.finalized => matcher' = matcher]_vars
    /\ [](\A p \in Procs :
            procs[p].pc = "done"
                => LET res == MatchingRules(matcher, procs[p].u)
                   IN /\ procs[p].result = res.tally
                      /\ procs[p].panic = res.panic
                      /\ \A q \in Procs :
                            (procs[q].pc = "done" /\ procs[q].u = procs[p].u)
                                => procs[q].result = procs[p].result)

\* two calls with the same URL ran at the same time and returned the same
\* tally of two rules
C9_Witness ==
    /\ procs[1].pc = "done"
    /\ procs[2].pc = "done"
    /\ procs[1].u = procs[2].u
    /\ Cardinality(procs[1].result) = 2
    /\ procs[1].result = procs[2].result

\* C11: when the chain fails against the system roots and then against the
\* configured extra pool, the error dialWithExtraRootCerts returns is the
\* error of the first verification, the one against the system roots.
C11_OriginalErrorReturned ==
    (dialLast.dialed /\ dialLast.pool /\ dialLast.sys = "failed"
        /\ dialLast.extra = "failed")
        => dialLast.err = "verify system"

\* C12: a Read on a response body that is blocked in the read of the
\* connection when the request's context is canceled returns the cancellation
\* error, and not what the read of the connection returns later.
C12_BlockedReadAborts ==
    (body.state = "returned" /\ body.late) => body.res = "context canceled"

\* C13: when the request's context is already canceled as
\* connTransport.RoundTrip is called, nothing is written to a connection, no
\* response is read, and the call returns the cancellation error of its one
\* roundTrip call; that error is not redial-worthy, so there is no reactive
\* redial and no second exchange.
C13_CanceledBeforeCall ==
    (ctLast.req # NoReq /\ ctLast.ctx = "canceled")
        => /\ ctLast.writes = <<>>
           /\ ctLast.resp = NoResp
           /\ ~body.open
           /\ ctLast.err = Err("context canceled", 1)
           /\ ~shouldRedialForError(ctLast.err)
           /\ ctLast.reactive = 0
           /\ ctLast.exchanges = 1
           /\ ctLast.dials = ctLast.proactive * (IF ctLast.proErr = "no redial function provided"
                                                 THEN 0 ELSE 1)

\* a replayable request on a used session, its context canceled before the call
C13_Witness ==
    /\ ctLast.req.Method = "GET"
    /\ requestIsReplayable(ctLast.req)
    /\ ctLast.before.used
    /\ ctLast.ctx = "canceled"
    /\ ctLast.err.kind = "context canceled"

\* the errors ct.redial returns
RedialErrors == {"no redial function provided", "dial error"}

XferOutcome == IF ftp.xfer = "completed" THEN "EOF" ELSE ftp.xferErr

XferEnded == ftp.xfer \in {"completed", "failed"}

\* C15: for a GET whose transfer was started, once the transfer reports
\* COMPLETED or ERROR the monitoring task closes the write end of the pipe
\* exactly once and ends: with COMPLETED it closes it cleanly and the reads of
\* the consumer end with EOF, with ERROR it closes it with the error of the
\* transfer, and the read of the consumer that is blocked, or its next one,
\* fails with exactly that error.
C15_MonitorClosesPipe ==
    /\ [](/\ ftp.closes <= 1
          /\ ftp.xfer # "none" => (ftp.req.Method = "GET" /\ ftp.resp = "200")
          /\ (ftp.mon = "done" /\ ftp.seen = "COMPLETED")
                => (ftp.closes = 1 /\ ftp.pipe = "EOF" /\ ftp.xfer = "completed")
          /\ (ftp.mon = "done" /\ ftp.seen = "ERROR")
                => /\ ftp.closes = 1
                   /\ ftp.xfer = "failed"
                   /\ ftp.pipe = ftp.xferErr
                   /\ ftp.pipe \in XferErrors
          /\ ftp.consRes \notin {"none", "data"}
                => (XferEnded /\ ftp.consRes = XferOutcome))
    /\ XferEnded ~> (ftp.mon = "done" /\ ftp.closes = 1 /\ ftp.pipe = XferOutcome)
    /\ (XferEnded /\ ftp.cons = "blocked")
            ~> (ftp.cons = "idle" /\ ftp.consRes \in {"data", XferOutcome})
    /\ (XferEnded /\ ftp.mon = "done" /\ ftp.cons = "blocked")
            ~> (ftp.cons = "idle" /\ ftp.consRes = XferOutcome)

\* a transfer that failed while the consumer was reading: the monitoring task
\* logged the error and closed the pipe with it, and the read failed with it
C15_Witness ==
    /\ ftp.xfer = "failed"
    /\ ftp.mon = "done"
    /\ ftp.closes = 1
    /\ ftp.log = <<ftp.xferErr>>
    /\ ftp.sent = 1
    /\ ftp.cons = "idle"
    /\ ftp.consRes = ftp.xferErr

\* the positions in the sequence of added rules of the literal-fragment rules
FragmentAdds == {i \in 1..Len(loaded.added) : loaded.added[i].t = "urlMatch"}

\* the last rule added with the key k
LastAdded(k) ==
    LET is == {i \in FragmentAdds : loaded.added[i].content = k}
    IN loaded.added[CHOOSE i \in is : \A j \in is : j <= i]

\* C16: after any sequence of AddRule calls the fragment map holds for each
\* key the literal-fragment rule added last with that key and no other, and
\* MatchingRules on a URL whose host and path make up that key has that rule
\* in its tally and none of the rules added earlier with the key.
C16_LastWriteWins ==
    \A i \in FragmentAdds :
        LET r == loaded.added[i]
            last == LastAdded(r.content)
        IN /\ fragmentAt(matcher.fragments, r.content) = {last}
           /\ (urlLast.called /\ urlLast.u.Host \o urlLast.u.Path = r.content)
                => /\ last \in urlLast.tally
                   /\ r # last => r \notin urlLast.tally

\* C17: when the proactive redial of RoundTrip (used session, non-replayable
\* request) fails and verbose logging is on for the category redial, the log
\* has a message with the redial error, written before the request is
\* attempted.
C17_ProactiveFailureLogged ==
    (ctLast.proactive = 1 /\ ctLast.proErr # "nil" /\ "redial" \in conf.Verbose)
        => /\ Len(ctLast.log) >= 1
           /\ ctLast.log[1] = [at |-> "proactive", cause |-> ctLast.proErr]

\* C18: when the first exchange of a replayable request fails with a
\* redial-worthy error and the reactive redial fails, RoundTrip makes no
\* second exchange, the session keeps its connection, which is not closed,
\* and its reader, and the call returns the error of the first exchange and
\* not the redial error.
C18_ReactiveRedialFailure ==
    (ctLast.reactive = 1 /\ ctLast.reErr # "nil")
        => /\ requestIsReplayable(ctLast.req)
           /\ shouldRedialForError(ctLast.firstErr)
           /\ ctLast.reErr \in RedialErrors
           /\ ctLast.exchanges = 1
           /\ Len(ctLast.writes) = 1
           /\ ct.Conn = ctLast.before.Conn
           /\ net.closed[ct.Conn] = 0
           /\ ct.br \in {ctLast.before.br, ct.Conn}
           /\ ctLast.err = ctLast.firstErr
           /\ ctLast.err.at = 1
           /\ ctLast.err.kind \notin RedialErrors
           /\ ctLast.resp = NoResp
           /\ "redial" \in conf.Verbose
                => ctLast.log = <<[at |-> "reactive", cause |-> ctLast.reErr]>>

\* a GET whose first exchange ended with EOF and whose redial failed to dial
C18_Witness ==
    /\ ctLast.req.Method = "GET"
    /\ ctLast.firstErr = Err("EOF", 1)
    /\ ctLast.reactive = 1
    /\ ctLast.reErr = "dial error"
    /\ ctLast.err = Err("EOF", 1)
    /\ ct.Conn = ctLast.before.Conn

\* C19: for every host and path, an empty host with an empty path and a host
\* ending in "." with an empty path included, the fragment walk of
\* MatchingRules ends without slicing a string out of range.
C19_WalkNeverPanics == urlLast.called => ~urlLast.panic

\* the redial of the last call replaced the connection
RedialSucceeded ==
    \/ ctLast.proactive = 1 /\ ctLast.proErr = "nil"
    \/ ctLast.reactive = 1 /\ ctLast.reErr = "nil"

\* C20: after any sequence of RoundTrip calls, with any exchange and redial
\* outcomes: a call invokes Redial at most once; the reader, once made, reads
\* from the current connection; a successful redial closes the connection the
\* session had exactly once and replaces connection and reader together; a
\* failed redial changes neither; the used flag, once set, stays set.
C20_SessionInvariants ==
    /\ [](/\ ctLast.dials <= 1
          /\ ctLast.proactive + ctLast.reactive <= 1
          /\ ct.br \in {0, ct.Conn}
          /\ \A i \in 1..MaxConns : net.closed[i] = IF i < ct.Conn THEN 1 ELSE 0
          /\ (ctLast # NoObs /\ RedialSucceeded)
                => /\ ctLast.dials = 1
                   /\ ct.Conn # ctLast.before.Conn
                   /\ ct.br = ct.Conn
                   /\ net.closed[ctLast.before.Conn] = 1
          /\ (ctLast # NoObs /\ ~RedialSucceeded)
                => /\ ct.Conn = ctLast.before.Conn
                   /\ ct.br \in {ctLast.before.br, ct.Conn}
          /\ ctLast # NoObs => ct.used)
    /\ [][ct.used => ct'.used]_vars
    /\ [][ct.br # 0 => ct'.br # 0]_vars
    /\ [][ct'.Conn # ct.Conn
            => /\ ct'.br = ct'.Conn
               /\ net'.closed[ct.Conn] = net.closed[ct.Conn] + 1]_vars

\* a session after two successful redials, the second of them in a call whose
\* second exchange was answered
C20_Witness ==
    /\ ct.Conn = 3
    /\ ct.br = 3
    /\ ct.used
    /\ ctLast.before.Conn = 2
    /\ net.closed[1] = 1 /\ net.closed[2] = 1 /\ net.closed[3] = 0
    /\ RedialSucceeded
    /\ ctLast.exchanges = 2
    /\ ctLast.err = NoErr

\* the callers that are inside Open or Log of the CSVLog l
InsideLog(l) ==
    {p \in Callers : callers[p].l = l
                     /\ callers[p].pc \in {"oLocked", "oClosed", "lLocked", "lWritten"}}

\* C21: however concurrent customCSVLog calls interleave, at most one CSVLog
\* is made and opened for a path and every call with that path returns it;
\* Log and Open calls on one CSVLog exclude each other, so that a record is
\* written and flushed as a whole, and never through a writer whose file Open
\* has closed.
C21_CustomLogsAreSerialized ==
    /\ \A pa \in LogPaths :
         /\ logs.created[pa] <= 1
         /\ logs.customLogs[pa] # 0
                => /\ logs.created[pa] = 1
                   /\ logs.obj[logs.customLogs[pa]].made
                   /\ logs.obj[logs.customLogs[pa]].csv # 0
         /\ \A pb \in LogPaths :
                (pa # pb /\ logs.customLogs[pa] # 0)
                    => logs.customLogs[pa] # logs.customLogs[pb]
    /\ \A p \in Callers :
         (callers[p].pc = "done" /\ callers[p].op = "custom")
            => /\ callers[p].ret # 0
               /\ callers[p].ret = logs.customLogs[callers[p].path]
    /\ Cardinality({p \in Callers : callers[p].pc \in {"cLocked", "cStore"}
                        \/ (callers[p].op = "custom"
                            /\ callers[p].pc \in {"oLocked", "oClosed"})}) <= 1
    /\ \A l \in 1..MaxLogs :
         /\ Cardinality(InsideLog(l)) <= 1
         /\ \A p \in InsideLog(l) : logs.obj[l].lock = p
         /\ InsideLog(l) = {} => logs.obj[l].buf = <<>>
         /\ \A p \in InsideLog(l) :
              callers[p].pc \in {"lLocked", "lWritten"}
                => /\ logs.files[logs.obj[l].csv].state = "open"
                   /\ logs.obj[l].csv = logs.obj[l].file
                   /\ logs.obj[l].buf = IF callers[p].pc = "lWritten" THEN <<p>> ELSE <<>>
    /\ ~logs.stale
    /\ ~logs.torn
    /\ \A f \in DOMAIN logs.files :
         \A i \in 1..Len(logs.files[f].content) : Len(logs.files[f].content[i]) = 1

\* both callers got the same CSVLog for the path p from customCSVLog, the log
\* was opened again under another name, and a record was logged to the new file
C21_Witness ==
    /\ callers[1].pc = "done" /\ callers[1].op = "custom" /\ callers[1].path = "p"
    /\ callers[2].pc = "done" /\ callers[2].op = "log"
    /\ callers[1].ret = callers[2].l
    /\ logs.created["p"] = 1
    /\ logs.files[2].state = "closed"
    /\ logs.files[3].state = "open"
    /\ logs.files[3].content = <<<<2>>>>

====
